---- MODULE Spec2Model ----
(***************************************************************************)
(* PokeClock (clock_display.py): the frame loop of main(), its five        *)
(* animation instances and the sun/moon progress computation.              *)
(*                                                                         *)
(* Time is counted in whole seconds since a local midnight.  Within one    *)
(* iteration of the loop every reading of the clock (datetime.now,         *)
(* time.time) gives the same value.  Progress values are kept as           *)
(* numerators over 1800 (the divisor of lines 312-325), so 1.0 is 1800.    *)
(***************************************************************************)
EXTENDS Integers, Sequences, FiniteSets, TLC

VARIABLES
    now,             \* line 275: the clock as read by the latest iteration
    astral_ok,       \* whether astral.sun.sun succeeds for the dates of this run
    prev_minute,     \* line 260
    anim,            \* the five instances: [start_time, active]
    frames,          \* number of frames of each instance (0: empty frame set)
    sunrise_today,   \* lines 279 / 290
    sunset_today,    \* lines 280 / 291
    sun_progress,    \* lines 311-318, numerator over 1800
    moon_progress,   \* lines 320-327, numerator over 1800
    ticks,           \* whether the loop body has run at all
    rollover,        \* the latest iteration took the branch of line 357
    afterRollover,   \* the instances as they were after line 364
    drew,            \* the latest iteration: update_and_draw returned True
    startedNow,      \* the latest iteration: instances whose start() took effect
    terminated,      \* the latest iteration: instances that self-terminated
    order,           \* instances started since the last start of hooh
    played,          \* chain members that self-terminated since the last rollover
    rollovers,       \* number of rollovers seen (capped at 2)
    completed,       \* verdict on the minute that ended at the last rollover
    sel,             \* the instance exercised by the instance-level specification
    lastOp,          \* the last call made by the instance-level specification
    lastRet,         \* its result
    calls,           \* the calls it has made so far
    failDates,       \* the dates (day numbers) for which astral.sun.sun raises
    clouds_img,      \* line 57: whether the cloud image was found
    cloud_offset,    \* line 269, in units of CLOUD_DRIFT_SPEED
    cloud_drift_direction,  \* line 270
    arg,             \* the arguments of the function under study
    result,          \* what it computed
    prevResult       \* what it computed the time before

vars == <<now, astral_ok, prev_minute, anim, frames, sunrise_today, sunset_today,
          sun_progress, moon_progress, ticks, rollover, afterRollover, drew,
          startedNow, terminated, order, played, rollovers, completed,
          sel, lastOp, lastRet, calls, failDates, clouds_img, cloud_offset,
          cloud_drift_direction, arg, result, prevResult>>

\* the state outside the frame loop
FuncVars == <<arg, result, prevResult>>
\* the state of the cloud drift
CloudVars == <<clouds_img, cloud_offset, cloud_drift_direction>>

---------------------------------------------------------------------------
(* Bounds of the model *)

\* length of a run, in minutes after the minute the program starts in
MaxMinutes == 2
\* longest time between the clock readings of two iterations, in seconds
MaxDt == 2
\* largest clock value of the instance-level specification
MaxT == 9

---------------------------------------------------------------------------
(* Program constants *)

None == -1

\* line 209 / 265
slide_duration == 2
hold_duration == 3
\* lines 312, 316, 321, 325: 30 minutes in seconds
TRANSITION == 1800
\* line 25
CLOUDY == TRUE
\* line 26
CLOUD_DRIFT_RANGE == 5
\* line 27: CLOUD_DRIFT_SPEED is 0.25; offsets are counted in quarters
CloudScale == 4

Names == {"hooh", "lugia", "trainer", "ray", "haunter"}
Chain == <<"hooh", "lugia", "trainer", "ray">>
ChainSet == {"hooh", "lugia", "trainer", "ray"}

\* lines 261-265: duration of each instance (haunter: total_duration, line 209)
Duration ==
    [n \in Names |->
        CASE n = "hooh" -> 5
          [] n = "lugia" -> 5
          [] n = "trainer" -> 7
          [] n = "ray" -> 7
          [] n = "haunter" -> slide_duration * 2 + hold_duration]

Fresh == [start_time |-> None, active |-> FALSE]

---------------------------------------------------------------------------
(* Calendar *)

DAY == 24 * 3600

DayStart(t) == (t \div DAY) * DAY

\* now.minute
MinuteOf(t) == (t \div 60) % 60

\* now.replace(hour=h, minute=0, second=0, microsecond=0)
AtHour(t, h) == DayStart(t) + h * 3600

\* astral.sun.sun for the configured observer: sunrise and sunset of a date
AstralSunrise(dayStart) == dayStart + 7 * 3600 + 12 * 60 + 37
AstralSunset(dayStart) == dayStart + 16 * 3600 + 48 * 60 + 5

\* whether the three lookups of lines 278-285 (today, yesterday, tomorrow)
\* all succeed at time t
LookupOk(t) ==
    {(t \div DAY) - 1, t \div DAY, (t \div DAY) + 1} \cap failDates = {}

\* LookupTimes that keeps the looked-up sunrise when the lookup fails
LookupTimes_StaleSunrise(ok, t) ==
    LET today == DayStart(t)
    IN  [sunrise_today |-> AstralSunrise(today),
         sunset_today |-> IF ok THEN AstralSunset(today) ELSE AtHour(t, 18),
         sunset_yesterday |-> IF ok THEN AstralSunset(today - DAY)
                              ELSE AtHour(t - DAY, 18),
         sunrise_tomorrow |-> IF ok THEN AstralSunrise(today + DAY)
                              ELSE AtHour(t + DAY, 6)]

\* lines 277-295: the four instants the iteration works with
LookupTimes(ok, t) ==
    LET today == DayStart(t)
    IN  [sunrise_today |-> IF ok THEN AstralSunrise(today) ELSE AtHour(t, 6),
         sunset_today |-> IF ok THEN AstralSunset(today) ELSE AtHour(t, 18),
         sunset_yesterday |-> IF ok THEN AstralSunset(today - DAY)
                              ELSE AtHour(t - DAY, 18),
         sunrise_tomorrow |-> IF ok THEN AstralSunrise(today + DAY)
                              ELSE AtHour(t + DAY, 6)]

---------------------------------------------------------------------------
(* Sun and moon progress, lines 297-327 *)

\* SunProgress whose setting ramp rises instead of falling
SunProgress_RisingAtSunset(t, sunrise, sunset) ==
    LET sunrise_transition_end == sunrise + TRANSITION
        sunset_transition_end == sunset + TRANSITION
    IN  IF sunrise <= t /\ t <= sunrise_transition_end
          THEN t - sunrise
        ELSE IF sunrise_transition_end < t /\ t < sunset
          THEN TRANSITION
        ELSE IF sunset <= t /\ t <= sunset_transition_end
          THEN t - sunset
        ELSE 0

SunProgress(t, sunrise, sunset) ==
    LET sunrise_transition_end == sunrise + TRANSITION
        sunset_transition_end == sunset + TRANSITION
    IN  IF sunrise <= t /\ t <= sunrise_transition_end
          THEN t - sunrise
        ELSE IF sunrise_transition_end < t /\ t < sunset
          THEN TRANSITION
        ELSE IF sunset <= t /\ t <= sunset_transition_end
          THEN TRANSITION - (t - sunset)
        ELSE 0

\* MoonProgress whose moon rises from sunset on, not 30 minutes later
MoonProgress_RisingAtSunset(t, sunrise, sunset, sunset_yesterday, sunrise_tomorrow) ==
    LET before == t < sunrise
        moon_rise_start == IF before THEN sunset_yesterday ELSE sunset
        moon_rise_end == (IF before THEN sunset_yesterday ELSE sunset) + TRANSITION
        moon_set_start == (IF before THEN sunrise ELSE sunrise_tomorrow) - TRANSITION
        moon_set_end == IF before THEN sunrise ELSE sunrise_tomorrow
    IN  IF moon_rise_start <= t /\ t <= moon_rise_end
          THEN t - moon_rise_start
        ELSE IF moon_rise_end < t /\ t < moon_set_start
          THEN TRANSITION
        ELSE IF moon_set_start <= t /\ t <= moon_set_end
          THEN TRANSITION - (t - moon_set_start)
        ELSE 0

\* lines 300-309, 320-327
MoonProgress(t, sunrise, sunset, sunset_yesterday, sunrise_tomorrow) ==
    LET before == t < sunrise
        moon_rise_start == (IF before THEN sunset_yesterday ELSE sunset) + TRANSITION
        moon_rise_end == (IF before THEN sunset_yesterday ELSE sunset) + 2 * TRANSITION
        moon_set_start == (IF before THEN sunrise ELSE sunrise_tomorrow) - TRANSITION
        moon_set_end == IF before THEN sunrise ELSE sunrise_tomorrow
    IN  IF moon_rise_start <= t /\ t <= moon_rise_end
          THEN t - moon_rise_start
        ELSE IF moon_rise_end < t /\ t < moon_set_start
          THEN TRANSITION
        ELSE IF moon_set_start <= t /\ t <= moon_set_end
          THEN TRANSITION - (t - moon_set_start)
        ELSE 0

---------------------------------------------------------------------------
(* The animation classes, lines 158-250 *)

\* start() without the test for an empty frame set
HorizontalAnimation_start_NoFrameTest(a, n, t) ==
    [start_time |-> t, active |-> TRUE]

HorizontalAnimation_start(a, n, t) ==
    IF frames[n] > 0 THEN [start_time |-> t, active |-> TRUE] ELSE a

\* the result: the instance afterwards, the value returned, and whether the
\* call took the branch of line 182
HorizontalAnimation_update_and_draw(a, n, t) ==
    IF ~a.active \/ a.start_time = None \/ frames[n] = 0
      THEN [anim |-> a, ret |-> FALSE, term |-> FALSE]
    ELSE IF t - a.start_time > Duration[n]
      THEN [anim |-> [a EXCEPT !.active = FALSE], ret |-> FALSE, term |-> TRUE]
    ELSE [anim |-> a, ret |-> TRUE, term |-> FALSE]

HaunterAnimation_start(a, n, t) ==
    IF frames[n] > 0 THEN [start_time |-> t, active |-> TRUE] ELSE a

\* update_and_draw that ends the animation at elapsed >= duration and clears
\* start_time
HaunterAnimation_update_and_draw_Reset(a, n, t) ==
    IF ~a.active \/ a.start_time = None \/ frames[n] = 0
      THEN [anim |-> a, ret |-> FALSE, term |-> FALSE]
    ELSE IF t - a.start_time >= slide_duration * 2 + hold_duration
      THEN [anim |-> Fresh, ret |-> FALSE, term |-> TRUE]
    ELSE [anim |-> a, ret |-> TRUE, term |-> FALSE]

HaunterAnimation_update_and_draw(a, n, t) ==
    IF ~a.active \/ a.start_time = None \/ frames[n] = 0
      THEN [anim |-> a, ret |-> FALSE, term |-> FALSE]
    ELSE IF t - a.start_time > slide_duration * 2 + hold_duration
      THEN [anim |-> [a EXCEPT !.active = FALSE], ret |-> FALSE, term |-> TRUE]
    ELSE [anim |-> a, ret |-> TRUE, term |-> FALSE]

StartOf(a, n, t) ==
    IF n = "haunter" THEN HaunterAnimation_start(a, n, t)
    ELSE HorizontalAnimation_start(a, n, t)

UpdateOf(a, n, t) ==
    IF n = "haunter" THEN HaunterAnimation_update_and_draw(a, n, t)
    ELSE HorizontalAnimation_update_and_draw(a, n, t)

---------------------------------------------------------------------------
(* main(), lines 254-405 *)

\* the frame sets found on disk at start-up (lines 75-79): all present, or
\* the file of hooh, of lugia or of haunter missing
FrameCount == 2
FrameConfigs ==
    {[n \in Names |-> FrameCount]}
    \cup {[n \in Names |-> IF n = e THEN 0 ELSE FrameCount] :
            e \in {"hooh", "lugia", "haunter"}}

\* the program is started at one of these seconds of one of these minutes of
\* day 1: 02:00 (night), 18:29 (with the fallback times the last minute of
\* the sunset transition, with the looked-up times night)
StartMinutes == {1440 + 2 * 60, 1440 + 18 * 60 + 29}
StartSeconds == {0, 38, 45, 52, 57, 59}
StartTimes == {m * 60 + s : m \in StartMinutes, s \in StartSeconds}

\* the last minute of day 1, for the runs that cross midnight
MidnightMinute == 1440 + 23 * 60 + 59
\* noon and the minute before the end of the sunset transition of day 1
\* (looked-up sunset 16:48:05 plus 30 minutes), for the runs that follow the
\* cloud drift
CloudMinutes == {1440 + 12 * 60, 1440 + 17 * 60 + 17}

StartMinuteOf(c) ==
    CHOOSE m \in StartMinutes \cup {MidnightMinute} \cup CloudMinutes :
        m * 60 <= c /\ c < (m + MaxMinutes + 2) * 60
RunEnd(c) == (StartMinuteOf(c) + MaxMinutes) * 60 + 1

\* lines 260-270: the state when the loop is entered
Init ==
    /\ now \in StartTimes
    /\ astral_ok \in BOOLEAN
    /\ prev_minute = None
    /\ frames \in FrameConfigs
    /\ anim = [n \in Names |->
                 IF n = "hooh" THEN HorizontalAnimation_start(Fresh, n, now)
                 ELSE Fresh]
    /\ sunrise_today = 0
    /\ sunset_today = 0
    /\ sun_progress = 0
    /\ moon_progress = 0
    /\ ticks = FALSE
    /\ rollover = FALSE
    /\ afterRollover = anim
    /\ drew = [n \in Names |-> FALSE]
    /\ startedNow = IF frames["hooh"] > 0 THEN {"hooh"} ELSE {}
    /\ terminated = {}
    /\ order = IF frames["hooh"] > 0 THEN <<"hooh">> ELSE <<>>
    /\ played = {}
    /\ rollovers = 0
    /\ completed = "none"
    /\ sel = "none"
    /\ lastOp = "init"
    /\ lastRet = FALSE
    /\ calls = {}
    /\ failDates = IF astral_ok THEN {} ELSE {0, 1, 2}
    /\ clouds_img = FALSE
    /\ cloud_offset = 0
    /\ cloud_drift_direction = 1
    /\ arg = <<>>
    /\ result = <<>>
    /\ prevResult = <<>>

\* the state before the first iteration, given the start time, the dates
\* whose lookup fails, whether the cloud image was found and the number of
\* frames every animation has
InitAt(starts, fails, imgs, count) ==
    /\ now \in starts
    /\ failDates \in fails
    /\ astral_ok = LookupOk(now)
    /\ clouds_img \in imgs
    /\ prev_minute = None
    /\ frames = [n \in Names |-> count]
    /\ anim = [n \in Names |->
                 IF n = "hooh" THEN HorizontalAnimation_start(Fresh, n, now)
                 ELSE Fresh]
    /\ sunrise_today = 0
    /\ sunset_today = 0
    /\ sun_progress = 0
    /\ moon_progress = 0
    /\ ticks = FALSE
    /\ rollover = FALSE
    /\ afterRollover = anim
    /\ drew = [n \in Names |-> FALSE]
    /\ startedNow = IF count > 0 THEN {"hooh"} ELSE {}
    /\ terminated = {}
    /\ order = IF count > 0 THEN <<"hooh">> ELSE <<>>
    /\ played = {}
    /\ rollovers = 0
    /\ completed = "none"
    /\ sel = "none"
    /\ lastOp = "init"
    /\ lastRet = FALSE
    /\ calls = {}
    /\ cloud_offset = 0
    /\ cloud_drift_direction = 1
    /\ arg = <<>>
    /\ result = <<>>
    /\ prevResult = <<>>

\* the rollover branch that restarts hooh and leaves the other instances as
\* they are
MinuteRollover_KeepsOthers(an, t) ==
    IF ~an["hooh"].active
      THEN [n \in Names |->
              IF n = "hooh" THEN HorizontalAnimation_start(an[n], n, t)
              ELSE an[n]]
    ELSE an

\* lines 359-364: the body of the rollover branch
MinuteRollover(an, t) ==
    IF ~an["hooh"].active
      THEN [n \in Names |->
              IF n = "hooh" THEN HorizontalAnimation_start(an[n], n, t)
              ELSE [an[n] EXCEPT !.start_time = None]]
    ELSE an

\* lines 354-364: the instances after the rollover handling
HandleMinute(an, pm, t) ==
    IF pm = None THEN an
    ELSE IF MinuteOf(t) # pm THEN MinuteRollover(an, t)
    ELSE an

\* ChainStartGuard without the test of line 369 that the predecessor was started
ChainStartGuard_NoPredecessorTest(prev_active, prev, a) ==
    /\ ~prev_active
    /\ ~a.active
    /\ a.start_time = None

\* lines 368-369 (374-375, 380-381): whether the next member is started
ChainStartGuard(prev_active, prev, a) ==
    /\ ~prev_active
    /\ ~a.active
    /\ a.start_time = None
    /\ prev.start_time # None

\* lines 366-384: the instances afterwards, what each update_and_draw
\* returned, which members were started and which self-terminated
DriveChain(an, t) ==
    LET r1 == UpdateOf(an["hooh"], "hooh", t)
        g2 == ChainStartGuard(r1.ret, r1.anim, an["lugia"])
        a2 == IF g2 THEN StartOf(an["lugia"], "lugia", t) ELSE an["lugia"]
        r2 == UpdateOf(a2, "lugia", t)
        g3 == ChainStartGuard(r2.ret, r2.anim, an["trainer"])
        a3 == IF g3 THEN StartOf(an["trainer"], "trainer", t) ELSE an["trainer"]
        r3 == UpdateOf(a3, "trainer", t)
        g4 == ChainStartGuard(r3.ret, r3.anim, an["ray"])
        a4 == IF g4 THEN StartOf(an["ray"], "ray", t) ELSE an["ray"]
        r4 == UpdateOf(a4, "ray", t)
        res == [hooh |-> r1, lugia |-> r2, trainer |-> r3, ray |-> r4]
        st == [hooh |-> FALSE,
               lugia |-> g2 /\ a2 # an["lugia"],
               trainer |-> g3 /\ a3 # an["trainer"],
               ray |-> g4 /\ a4 # an["ray"]]
    IN  [anim |-> [n \in Names |-> IF n \in ChainSet THEN res[n].anim ELSE an[n]],
         ret |-> [n \in ChainSet |-> res[n].ret],
         started |-> {n \in ChainSet : st[n]},
         term |-> {n \in ChainSet : res[n].term}]

\* HaunterStartGuard that restarts the instance whenever it is idle
HaunterStartGuard_WheneverIdle(a) == ~a.active

\* line 387: whether the night animation is started
HaunterStartGuard(a) == ~a.active /\ a.start_time = None

\* NightDriven deciding on the sun progress instead of the moon progress
NightDriven_BySun(sun, moon) == sun <= 0

\* line 386: whether the night animation is driven in this iteration
NightDriven(sun, moon) == moon > 0

\* lines 386-389
DriveNight(an, sun, moon, t) ==
    IF NightDriven(sun, moon)
      THEN LET g == HaunterStartGuard(an["haunter"])
               a0 == IF g THEN StartOf(an["haunter"], "haunter", t) ELSE an["haunter"]
               r == UpdateOf(a0, "haunter", t)
           IN  [anim |-> [an EXCEPT !["haunter"] = r.anim],
                ret |-> r.ret,
                started |-> IF g /\ a0 # an["haunter"] THEN {"haunter"} ELSE {},
                term |-> IF r.term THEN {"haunter"} ELSE {}]
    ELSE [anim |-> an, ret |-> FALSE, started |-> {}, term |-> {}]

\* CloudStep that turns round only beyond the range
CloudStep_LateTurn(img, off, dir, sun) ==
    IF CLOUDY /\ img /\ sun > 0
      THEN LET o == off + dir
           IN  [offset |-> o,
                direction |-> IF o > CLOUD_DRIFT_RANGE * CloudScale THEN -1
                              ELSE IF o < -(CLOUD_DRIFT_RANGE * CloudScale) THEN 1
                              ELSE dir]
    ELSE [offset |-> off, direction |-> dir]

\* lines 393-399: the cloud offset and direction after the iteration
CloudStep(img, off, dir, sun) ==
    IF CLOUDY /\ img /\ sun > 0
      THEN LET o == off + dir
           IN  [offset |-> o,
                direction |-> IF o >= CLOUD_DRIFT_RANGE * CloudScale THEN -1
                              ELSE IF o <= -(CLOUD_DRIFT_RANGE * CloudScale) THEN 1
                              ELSE dir]
    ELSE [offset |-> off, direction |-> dir]

\* lines 273-405: one iteration of the loop.  The first iteration follows the
\* construction at once; later ones read the clock dt seconds after the
\* previous one (the sleep of line 405, or a frame that ran long).
Tick ==
    \E dt \in (IF ticks THEN 1..MaxDt ELSE {0}) :
      LET t == now + dt
          ok == LookupOk(t)
          lk == LookupTimes(ok, t)
          sr == lk.sunrise_today
          ss == lk.sunset_today
          sun == SunProgress(t, sr, ss)
          moon == MoonProgress(t, sr, ss, lk.sunset_yesterday, lk.sunrise_tomorrow)
          cl == CloudStep(clouds_img, cloud_offset, cloud_drift_direction, sun)
          roll == prev_minute # None /\ MinuteOf(t) # prev_minute
          an1 == HandleMinute(anim, prev_minute, t)
          hoohStarted == roll /\ an1["hooh"] # anim["hooh"]
          c == DriveChain(an1, t)
          n == DriveNight(c.anim, sun, moon, t)
      IN  /\ t <= RunEnd(now)
          /\ now' = t
          /\ ticks' = TRUE
          /\ sunrise_today' = sr
          /\ sunset_today' = ss
          /\ sun_progress' = sun
          /\ moon_progress' = moon
          /\ prev_minute' = MinuteOf(t)
          /\ rollover' = roll
          /\ afterRollover' = an1
          /\ anim' = n.anim
          /\ drew' = [m \in Names |-> IF m \in ChainSet THEN c.ret[m] ELSE n.ret]
          /\ startedNow' = (IF hoohStarted THEN {"hooh"} ELSE {})
                             \cup c.started \cup n.started
          /\ terminated' = c.term \cup n.term
          /\ order' = (IF hoohStarted THEN <<"hooh">> ELSE order)
                        \o SelectSeq(Chain, LAMBDA m : m \in c.started)
          /\ played' = (IF roll THEN {} ELSE played) \cup c.term
          /\ rollovers' = IF roll /\ rollovers < 2 THEN rollovers + 1 ELSE rollovers
          /\ completed' = IF roll /\ rollovers >= 1
                            THEN (IF played = ChainSet THEN "yes" ELSE "no")
                          ELSE completed
          /\ astral_ok' = ok
          /\ cloud_offset' = cl.offset
          /\ cloud_drift_direction' = cl.direction
          /\ UNCHANGED <<frames, sel, lastOp, lastRet, calls, failDates, clouds_img>>
          /\ UNCHANGED FuncVars

Next == Tick

Spec == Init /\ [][Next]_vars

\* the runs that start in the last minute of day 1 and cross midnight; the
\* lookup fails for no date, for the dates of the first day's lookups only,
\* for the dates of the second day's only, or for every date
MidnightFails == {{}, {0}, {3}, {0, 1, 2, 3}}
InitMidnight ==
    InitAt({MidnightMinute * 60 + s : s \in StartSeconds}, MidnightFails,
           {FALSE}, FrameCount)
SpecMidnight == InitMidnight /\ [][Next]_vars

\* the runs that follow the cloud drift, with and without the cloud image;
\* no animation has frames in these runs, so that the drift is followed
\* through every spacing of the iterations
InitCloud == InitAt({m * 60 : m \in CloudMinutes}, {{}}, BOOLEAN, 0)
SpecCloud == InitCloud /\ [][Next]_vars

---------------------------------------------------------------------------
(* One animation instance under arbitrary calls of start and               *)
(* update_and_draw at arbitrary times (lines 158-250)                      *)

InitAnim ==
    /\ now = 0
    /\ sel \in Names
    /\ frames \in {[n \in Names |-> k] : k \in {0, FrameCount}}
    /\ anim = [n \in Names |-> Fresh]
    /\ afterRollover = anim
    /\ drew = [n \in Names |-> FALSE]
    /\ startedNow = {}
    /\ terminated = {}
    /\ lastOp = "init"
    /\ lastRet = FALSE
    /\ calls = {}
    /\ astral_ok = TRUE
    /\ prev_minute = None
    /\ sunrise_today = 0
    /\ sunset_today = 0
    /\ sun_progress = 0
    /\ moon_progress = 0
    /\ ticks = FALSE
    /\ rollover = FALSE
    /\ order = <<>>
    /\ played = {}
    /\ rollovers = 0
    /\ completed = "none"
    /\ failDates = {}
    /\ clouds_img = TRUE
    /\ cloud_offset = 0
    /\ cloud_drift_direction = 1
    /\ arg = <<>>
    /\ result = <<>>
    /\ prevResult = <<>>

AnimFrame == <<astral_ok, prev_minute, frames, sunrise_today, sunset_today,
               sun_progress, moon_progress, ticks, rollover, afterRollover,
               order, played, rollovers, completed, sel, failDates, clouds_img,
               cloud_offset, cloud_drift_direction, arg, result, prevResult>>

\* start(), lines 171-174 and 217-220
CallStart ==
    /\ sel \in Names
    /\ anim' = [anim EXCEPT ![sel] = StartOf(anim[sel], sel, now)]
    /\ lastOp' = "start"
    /\ calls' = calls \cup {"start"}
    /\ UNCHANGED <<now, drew, startedNow, terminated, lastRet>>
    /\ UNCHANGED AnimFrame

\* update_and_draw(canvas), lines 176-202 and 222-250
CallUpdate ==
    /\ sel \in Names
    /\ LET r == UpdateOf(anim[sel], sel, now)
       IN  /\ anim' = [anim EXCEPT ![sel] = r.anim]
           /\ lastRet' = r.ret
           /\ drew' = [drew EXCEPT ![sel] = r.ret]
           /\ terminated' = IF r.term THEN {sel} ELSE {}
    /\ lastOp' = "update"
    /\ calls' = calls \cup {"update"}
    /\ UNCHANGED <<now, startedNow>>
    /\ UNCHANGED AnimFrame

\* time passes between two calls
Advance ==
    /\ sel \in Names
    /\ now < MaxT
    /\ now' = now + 1
    /\ lastOp' = "advance"
    /\ UNCHANGED <<anim, drew, startedNow, terminated, lastRet, calls>>
    /\ UNCHANGED AnimFrame

NextAnim == CallStart \/ CallUpdate \/ Advance

SpecAnim == InitAnim /\ [][NextAnim]_vars

---------------------------------------------------------------------------
(* The sun progress of lines 297-318 on chosen instants *)

\* sunrise and sunset of a day, seconds after midnight: the fallback times
\* 06:00/18:00, a winter day and a summer day of the configured observer
SunTimes ==
    {<<6 * 3600, 18 * 3600>>,
     <<AstralSunrise(0), AstralSunset(0)>>,
     <<5 * 3600 + 7 * 60, 21 * 3600 + 21 * 60 + 30>>}

Offsets ==
    {-1801, -1800, -1799, -600, -1, 0, 1, 600, 900, 1200, 1799, 1800, 1801,
     2400, 3599, 3600, 3601}

\* by how many seconds yesterday's sunset and tomorrow's sunrise differ from
\* today's
DayDrifts == {-120, 0, 120}

SunNows(p) ==
    {p[1] + o : o \in Offsets} \cup {p[2] + o : o \in Offsets}
    \cup {0, 2 * 3600, 6 * 3600 + 900, 12 * 3600, 18 * 3600 + 600, DAY - 1}

InitSun ==
    /\ \E p \in SunTimes :
         /\ sunrise_today = p[1]
         /\ sunset_today = p[2]
         /\ now \in SunNows(p)
    /\ sun_progress = 0
    /\ lastOp = "init"
    /\ sel = "none"
    /\ frames = [n \in Names |-> FrameCount]
    /\ anim = [n \in Names |-> Fresh]
    /\ afterRollover = anim
    /\ drew = [n \in Names |-> FALSE]
    /\ startedNow = {}
    /\ terminated = {}
    /\ lastRet = FALSE
    /\ calls = {}
    /\ astral_ok = TRUE
    /\ prev_minute = None
    /\ moon_progress = 0
    /\ ticks = FALSE
    /\ rollover = FALSE
    /\ order = <<>>
    /\ played = {}
    /\ rollovers = 0
    /\ completed = "none"
    /\ failDates = {}
    /\ clouds_img = TRUE
    /\ cloud_offset = 0
    /\ cloud_drift_direction = 1
    /\ \E dy \in DayDrifts, dt \in DayDrifts :
         arg = [sunset_yesterday |-> sunset_today - DAY + dy,
                sunrise_tomorrow |-> sunrise_today + DAY + dt]
    /\ result = <<>>
    /\ prevResult = <<>>

\* lines 311-318
ComputeSun ==
    /\ lastOp = "init"
    /\ sel = "none"
    /\ sun_progress' = SunProgress(now, sunrise_today, sunset_today)
    /\ lastOp' = "sun"
    /\ UNCHANGED <<now, astral_ok, prev_minute, anim, frames, sunrise_today,
                   sunset_today, moon_progress, ticks, rollover, afterRollover,
                   drew, startedNow, terminated, order, played, rollovers,
                   completed, sel, lastRet, calls, failDates>>
    /\ UNCHANGED CloudVars
    /\ UNCHANGED FuncVars

\* lines 300-309, 320-327
ComputeMoon ==
    /\ lastOp = "sun"
    /\ moon_progress' = MoonProgress(now, sunrise_today, sunset_today,
                                     arg.sunset_yesterday, arg.sunrise_tomorrow)
    /\ lastOp' = "moon"
    /\ UNCHANGED <<now, astral_ok, prev_minute, anim, frames, sunrise_today,
                   sunset_today, sun_progress, ticks, rollover, afterRollover,
                   drew, startedNow, terminated, order, played, rollovers,
                   completed, sel, lastRet, calls, failDates>>
    /\ UNCHANGED CloudVars
    /\ UNCHANGED FuncVars

NextSun == ComputeSun \/ ComputeMoon

SpecSun == InitSun /\ [][NextSun]_vars

---------------------------------------------------------------------------
(* Properties *)

AllChainFrames == \A n \in ChainSet : frames[n] > 0

IsPrefix(q, r) == Len(q) <= Len(r) /\ \A i \in 1..Len(q) : q[i] = r[i]

StartedAt(t) == [start_time |-> t, active |-> TRUE]

\* C1: on every iteration that sees a minute rollover, after the rollover
\* handling hooh has been (re)started in that iteration and lugia, trainer,
\* ray and haunter are all inactive and unstarted.
C1_RolloverResetsChain ==
    (rollover /\ frames["hooh"] > 0) =>
        /\ afterRollover["hooh"] = StartedAt(now)
        /\ \A n \in Names \ {"hooh"} : afterRollover[n] = Fresh

\* C2: at the end of every iteration at most one of hooh, lugia, trainer, ray
\* has its active flag set.
C2_AtMostOneActive ==
    Cardinality({n \in ChainSet : anim[n].active}) <= 1

\* C3: with all four chain frame sets present, every minute that begins with
\* a rollover sees hooh, lugia, trainer and ray all play to their end before
\* the next rollover.
C3_SequenceEveryMinute ==
    AllChainFrames => completed # "no"

\* C4: the members started since the last start of hooh form a prefix of
\* hooh, lugia, trainer, ray (declared order, each at most once), and a member
\* is started only in an iteration in which its predecessor has been started,
\* is no longer active and returned false from update_and_draw.
C4_FixedOrder ==
    /\ IsPrefix(order, Chain)
    /\ ticks =>
         \A i \in 2..4 :
           Chain[i] \in startedNow =>
             /\ ~drew[Chain[i - 1]]
             /\ anim[Chain[i - 1]].start_time # None
             /\ ~anim[Chain[i - 1]].active

\* C4 witness: ray is started as the fourth member after hooh, lugia, trainer.
C4_Witness ==
    ticks /\ order = Chain /\ "ray" \in startedNow

\* C5: with all chain frame sets present, in every iteration in which hooh,
\* lugia or trainer self-terminates, the next member is started and draws in
\* that same iteration.
C5_NoGapAtHandOff ==
    (ticks /\ AllChainFrames) =>
        \A i \in 1..3 :
          Chain[i] \in terminated =>
            Chain[i + 1] \in startedNow /\ drew[Chain[i + 1]]

\* C6 as claimed: chain members are started or drawn only when sun progress
\* is > 0, haunter only when it is not, and never both in one iteration.
C6_DayNightExclusive ==
    ticks =>
        /\ (\E n \in ChainSet : drew[n] \/ n \in startedNow) => sun_progress > 0
        /\ (drew["haunter"] \/ "haunter" \in startedNow) => ~(sun_progress > 0)
        /\ ~(drew["haunter"] /\ \E n \in ChainSet : drew[n])

\* C6 as amended: the night animation is started, drawn or ended only in an
\* iteration with moon progress > 0, and in such an iteration sun progress
\* is 0 (the chain is driven in every iteration, whatever the sun progress).
C6_HaunterOnlyUnderMoon ==
    ticks =>
        ((drew["haunter"] \/ "haunter" \in startedNow \/ "haunter" \in terminated)
            => (moon_progress > 0 /\ sun_progress = 0))

\* C6 witness: a night iteration in which haunter and a chain member both draw.
C6_Witness ==
    ticks /\ sun_progress = 0 /\ moon_progress > 0 /\ drew["haunter"]
          /\ \E n \in ChainSet : drew[n]

\* C7 as claimed: in every iteration with the night animation driven and
\* haunter idle (frame set present), haunter is started in that iteration.
C7_RestartWheneverIdle ==
    (ticks /\ moon_progress > 0 /\ frames["haunter"] > 0
           /\ ~afterRollover["haunter"].active)
        => "haunter" \in startedNow

\* C7 as amended: in such an iteration haunter is started exactly if its
\* start_time is unset; having self-terminated it keeps its start_time and
\* stays idle until a rollover reset clears it.
C7_RestartOnlyWhenUnstarted ==
    (ticks /\ moon_progress > 0 /\ frames["haunter"] > 0
           /\ ~afterRollover["haunter"].active)
        => ("haunter" \in startedNow <=> afterRollover["haunter"].start_time = None)

\* C7 witness: haunter, having played in an earlier minute, is started again
\* in the iteration of a rollover.
C7_Witness ==
    ticks /\ rollover /\ rollovers = 2 /\ moon_progress > 0
          /\ "haunter" \in startedNow /\ drew["haunter"]

\* C8 as claimed: an update_and_draw on a started instance at
\* elapsed >= duration returns false and leaves the instance inactive with
\* start_time cleared.
C8_SelfTerminationResets ==
    (lastOp = "update" /\ sel \in Names /\ "start" \in calls
        /\ (anim[sel].start_time = None
              \/ now - anim[sel].start_time >= Duration[sel]))
        => (~lastRet /\ anim[sel] = Fresh)

\* C8 as amended: an update_and_draw on an active, started instance returns
\* false and clears only the active flag (start_time is kept) when
\* elapsed > duration; at elapsed <= duration, elapsed = duration included,
\* it draws, returns true and changes nothing.
C8_SelfTerminationKeepsStart ==
    [][(CallUpdate /\ anim[sel].active
          /\ anim[sel].start_time # None /\ frames[sel] > 0)
        => IF now - anim[sel].start_time > Duration[sel]
             THEN ~lastRet' /\ anim'[sel] = [anim[sel] EXCEPT !.active = FALSE]
             ELSE lastRet' /\ anim'[sel] = anim[sel]]_vars

\* C8 witness: haunter after an update_and_draw that ended it.
C8_Witness ==
    /\ lastOp = "update" /\ sel = "haunter" /\ "haunter" \in terminated
    /\ ~lastRet /\ ~anim[sel].active
    /\ now - anim[sel].start_time > Duration[sel]

\* C9: on an instance with an empty frame set, after any calls of start and
\* update_and_draw, the instance is inactive and unstarted and no
\* update_and_draw has returned true or drawn.
C9_EmptyFrameSet ==
    (sel \in Names /\ frames[sel] = 0) =>
        (anim[sel] = Fresh /\ ~lastRet /\ ~drew[sel])

\* C9 witness: both calls made on an instance with an empty frame set.
C9_Witness ==
    /\ sel \in Names /\ frames[sel] = 0
    /\ calls = {"start", "update"} /\ lastOp = "update" /\ now > 0

\* C10: the sun progress is the rising ramp on [sunrise, sunrise+W], 1.0 on
\* (sunrise+W, sunset), the falling ramp on [sunset, sunset+W], 0.0 elsewhere,
\* and lies in [0, 1]; with 06:00/18:00 it is 0.5 at 06:15, 1.0 at 12:00,
\* 2/3 at 18:10 and 0.0 at 02:00.
C10_SunProgressRamp ==
    lastOp = "sun" =>
        LET sr == sunrise_today
            ss == sunset_today
            W == 30 * 60
        IN  /\ (sr <= now /\ now <= sr + W) => sun_progress * W = (now - sr) * TRANSITION
            /\ (sr + W < now /\ now < ss) => sun_progress = TRANSITION
            /\ (ss <= now /\ now <= ss + W)
                 => sun_progress * W = (W - (now - ss)) * TRANSITION
            /\ (now < sr \/ now > ss + W) => sun_progress = 0
            /\ 0 <= sun_progress /\ sun_progress <= TRANSITION
            /\ (sr = 6 * 3600 /\ ss = 18 * 3600) =>
                 /\ now = 6 * 3600 + 15 * 60 => 2 * sun_progress = TRANSITION
                 /\ now = 12 * 3600 => sun_progress = TRANSITION
                 /\ now = 18 * 3600 + 10 * 60 => 3 * sun_progress = 2 * TRANSITION
                 /\ now = 2 * 3600 => sun_progress = 0

\* C10 witness: the progress computed inside the sunset transition.
C10_Witness ==
    /\ lastOp = "sun"
    /\ sunset_today < now /\ now < sunset_today + TRANSITION
    /\ 0 < sun_progress /\ sun_progress < TRANSITION

LoopVars ==
    <<now, astral_ok, prev_minute, anim, frames, sunrise_today, sunset_today,
      sun_progress, moon_progress, ticks, rollover, afterRollover, drew,
      startedNow, terminated, order, played, rollovers, completed, sel,
      lastRet, calls, failDates, clouds_img, cloud_offset,
      cloud_drift_direction>>

LoopIdle ==
    /\ now = 0
    /\ astral_ok = TRUE
    /\ prev_minute = None
    /\ frames = [n \in Names |-> FrameCount]
    /\ anim = [n \in Names |-> Fresh]
    /\ sunrise_today = 0
    /\ sunset_today = 0
    /\ sun_progress = 0
    /\ moon_progress = 0
    /\ ticks = FALSE
    /\ rollover = FALSE
    /\ afterRollover = anim
    /\ drew = [n \in Names |-> FALSE]
    /\ startedNow = {}
    /\ terminated = {}
    /\ order = <<>>
    /\ played = {}
    /\ rollovers = 0
    /\ completed = "none"
    /\ sel = "none"
    /\ lastRet = FALSE
    /\ calls = {}
    /\ failDates = {}
    /\ clouds_img = TRUE
    /\ cloud_offset = 0
    /\ cloud_drift_direction = 1

Max(a, b) == IF a >= b THEN a ELSE b
Min(a, b) == IF a <= b THEN a ELSE b

\* sprites are up to MaxSprite pixels wide and high, canvases up to MaxCanvas,
\* offsets reach MaxOffset pixels to either side
MaxSprite == 2
MaxCanvas == 2
MaxOffset == 3

\* alpha values at and around the threshold of line 127
AlphaValues == {0, 9, 10, 255}

\* an image: absent (None), or its size, its mode and the alpha of its
\* pixels (a where x + y is even, b where it is odd)
NoImage == [present |-> FALSE, w |-> 0, h |-> 0, mode |-> "RGBA", a |-> 0, b |-> 0]
Images ==
    {NoImage}
    \cup [present : {TRUE}, w : 1..MaxSprite, h : 1..MaxSprite, mode : {"RGBA"},
          a : AlphaValues, b : AlphaValues]
    \cup [present : {TRUE}, w : 1..MaxSprite, h : 1..MaxSprite, mode : {"RGB"},
          a : {255}, b : {255}]

\* line 126: the alpha of pixels[x, y]
AlphaAt(image, x, y) == IF (x + y) % 2 = 0 THEN image.a ELSE image.b

\* draw_image_on_canvas whose x_end does not take the offset into account
draw_image_on_canvas_NoOffsetInClip(canvas, image, x_offset, y_offset) ==
    IF ~image.present THEN [calls |-> {}, error |-> FALSE]
    ELSE
      LET x_start == Max(0, -x_offset)
          x_end == Min(image.w, canvas.width)
          y_start == Max(0, -y_offset)
          y_end == Min(image.h, canvas.height - y_offset)
          reads == {<<x, y>> : x \in x_start..(x_end - 1), y \in y_start..(y_end - 1)}
      IN  [calls |->
             {[x |-> p[1] + x_offset, y |-> p[2] + y_offset, sx |-> p[1], sy |-> p[2]] :
                p \in {q \in reads :
                         ~(image.mode = "RGBA" /\ AlphaAt(image, q[1], q[2]) < 10)}},
           error |-> \E p \in reads :
                       ~(p[1] \in 0..(image.w - 1) /\ p[2] \in 0..(image.h - 1))]

\* lines 110-133: the SetPixel calls made (canvas position and source pixel
\* whose colour is written) and whether a pixel outside the image was read
draw_image_on_canvas(canvas, image, x_offset, y_offset) ==
    IF ~image.present THEN [calls |-> {}, error |-> FALSE]
    ELSE
      LET x_start == Max(0, -x_offset)
          x_end == Min(image.w, canvas.width - x_offset)
          y_start == Max(0, -y_offset)
          y_end == Min(image.h, canvas.height - y_offset)
          reads == {<<x, y>> : x \in x_start..(x_end - 1), y \in y_start..(y_end - 1)}
      IN  [calls |->
             {[x |-> p[1] + x_offset, y |-> p[2] + y_offset, sx |-> p[1], sy |-> p[2]] :
                p \in {q \in reads :
                         ~(image.mode = "RGBA" /\ AlphaAt(image, q[1], q[2]) < 10)}},
           error |-> \E p \in reads :
                       ~(p[1] \in 0..(image.w - 1) /\ p[2] \in 0..(image.h - 1))]

DrawArgs ==
    [canvas : [width : 1..MaxCanvas, height : 1..MaxCanvas],
     image : Images,
     x_offset : (-MaxOffset)..MaxOffset,
     y_offset : (-MaxOffset)..MaxOffset]

InitDraw ==
    /\ LoopIdle
    /\ lastOp = "init"
    /\ arg \in DrawArgs
    /\ result = <<>>
    /\ prevResult = <<>>

\* one call of draw_image_on_canvas
CallDraw ==
    /\ lastOp = "init"
    /\ result' = draw_image_on_canvas(arg.canvas, arg.image, arg.x_offset, arg.y_offset)
    /\ lastOp' = "draw"
    /\ UNCHANGED <<arg, prevResult>>
    /\ UNCHANGED LoopVars

NextDraw == CallDraw

SpecDraw == InitDraw /\ [][NextDraw]_vars

\* whether source pixel (sx, sy) of the image is drawn at all: RGB pixels
\* always, RGBA pixels with alpha of 10 or more
Opaque(image, sx, sy) ==
    image.mode = "RGB" \/ AlphaAt(image, sx, sy) >= 10

\* whether the image placed at the offset has no pixel on the canvas
FullyOutside(canvas, image, x_offset, y_offset) ==
    \/ x_offset >= canvas.width
    \/ x_offset + image.w <= 0
    \/ y_offset >= canvas.height
    \/ y_offset + image.h <= 0

\* C12: draw_image_on_canvas calls SetPixel only inside the canvas, only for
\* pixels that are not transparent, reads no pixel outside the image, makes
\* no call for an absent, fully transparent or fully outside sprite, and
\* writes every opaque source pixel that lands on the canvas at its own
\* coordinates plus the offset
C12_CompositorBounds ==
    lastOp = "draw" =>
      LET cv == arg.canvas
          im == arg.image
      IN  /\ ~result.error
          /\ \A c \in result.calls :
               /\ 0 <= c.x /\ c.x < cv.width
               /\ 0 <= c.y /\ c.y < cv.height
               /\ Opaque(im, c.sx, c.sy)
               /\ c.x = c.sx + arg.x_offset
               /\ c.y = c.sy + arg.y_offset
          /\ ~im.present => result.calls = {}
          /\ (im.mode = "RGBA" /\ im.a < 10 /\ im.b < 10) => result.calls = {}
          /\ FullyOutside(cv, im, arg.x_offset, arg.y_offset) => result.calls = {}
          /\ im.present =>
               \A sx \in 0..(im.w - 1), sy \in 0..(im.h - 1) :
                 (/\ Opaque(im, sx, sy)
                  /\ sx + arg.x_offset \in 0..(cv.width - 1)
                  /\ sy + arg.y_offset \in 0..(cv.height - 1))
                 => [x |-> sx + arg.x_offset, y |-> sy + arg.y_offset,
                     sx |-> sx, sy |-> sy] \in result.calls

\* a sprite partly off the canvas to the right and below, with one pixel
\* under the alpha threshold and one at it: something is drawn, something
\* is clipped, something is skipped
C12_Witness ==
    /\ lastOp = "draw"
    /\ arg.image.mode = "RGBA" /\ arg.image.a = 10 /\ arg.image.b = 9
    /\ arg.image.w = 2 /\ arg.image.h = 2
    /\ arg.x_offset = 1 /\ arg.y_offset = 1
    /\ arg.canvas.width = 2 /\ arg.canvas.height = 2
    /\ result.calls = {[x |-> 1, y |-> 1, sx |-> 0, sy |-> 0]}

\* lines 30-33
DAY_SKY == <<135, 206, 235>>
HORIZON_ORANGE == <<255, 165, 79>>
NIGHT_SKY == <<25, 25, 60>>
NIGHT_BOTTOM == <<70, 130, 180>>

\* factors are fractions n / d with d up to MaxDen
MaxDen == 8

\* int() of the fraction a / d, d > 0: rounds towards zero
TruncDiv(a, d) == IF a >= 0 THEN a \div d ELSE -((-a) \div d)

\* interpolate_color that steps away from c2
interpolate_color_Away(c1, c2, factor) ==
    [i \in 1..3 |->
       TruncDiv(c1[i] * factor[2] + (c1[i] - c2[i]) * factor[1], factor[2])]

\* lines 83-84, factor being the fraction factor[1] / factor[2]
interpolate_color(c1, c2, factor) ==
    [i \in 1..3 |->
       TruncDiv(c1[i] * factor[2] + (c2[i] - c1[i]) * factor[1], factor[2])]

\* the colours of the program, black, white and two more 8-bit colours
Colors ==
    {DAY_SKY, HORIZON_ORANGE, NIGHT_SKY, NIGHT_BOTTOM,
     <<0, 0, 0>>, <<255, 255, 255>>, <<0, 128, 255>>, <<1, 254, 127>>}

\* the fractions n / d in [0, 1]
Factors == {<<n, d>> \in (0..MaxDen) \X (1..MaxDen) : n <= d}

InitColor ==
    /\ LoopIdle
    /\ lastOp = "init"
    /\ arg \in [c1 : Colors, c2 : Colors, factor : Factors]
    /\ result = <<>>
    /\ prevResult = <<>>

\* one call of interpolate_color
CallInterpolate ==
    /\ lastOp = "init"
    /\ result' = interpolate_color(arg.c1, arg.c2, arg.factor)
    /\ lastOp' = "interpolate"
    /\ UNCHANGED <<arg, prevResult>>
    /\ UNCHANGED LoopVars

NextColor == CallInterpolate

SpecColor == InitColor /\ [][NextColor]_vars

\* whether v lies between a and b inclusive, whichever is larger
Between(v, a, b) == (a <= v /\ v <= b) \/ (b <= v /\ v <= a)

\* C13: every channel of interpolate_color(c1, c2, n/d) is the integer part
\* of c1 + (c2 - c1) * n / d, lies between the channels of c1 and c2, is c1's
\* for factor 0 and c2's for factor 1
C13_InterpolateBetween ==
    lastOp = "interpolate" =>
      LET n == arg.factor[1]
          d == arg.factor[2]
      IN  /\ \A i \in 1..3 :
               /\ Between(result[i], arg.c1[i], arg.c2[i])
               /\ result[i] * d <= arg.c1[i] * d + (arg.c2[i] - arg.c1[i]) * n
               /\ arg.c1[i] * d + (arg.c2[i] - arg.c1[i]) * n < (result[i] + 1) * d
          /\ n = 0 => result = arg.c1
          /\ n = d => result = arg.c2

\* a blend strictly inside the two colours whose exact value is no integer
C13_Witness ==
    /\ lastOp = "interpolate"
    /\ arg.c1 = NIGHT_SKY /\ arg.c2 = DAY_SKY /\ arg.factor = <<1, 3>>
    /\ result = <<61, 85, 118>>

\* canvases of the sky gradient are up to MaxHeight rows high
MaxHeight == 6

\* draw_sky_gradient whose vertical factor is y / height
draw_sky_gradient_OverHeight(canvas, factor_day) ==
    LET row_colors ==
          [r \in 1..canvas.height |->
             LET y == r - 1
                 vertical_factor == <<y, Max(1, canvas.height)>>
             IN  IF 0 < factor_day[1] /\ factor_day[1] < factor_day[2]
                   THEN LET top_color == interpolate_color(NIGHT_SKY, DAY_SKY, factor_day)
                            bottom_color ==
                              interpolate_color(NIGHT_BOTTOM, HORIZON_ORANGE, factor_day)
                        IN  interpolate_color(top_color, bottom_color, vertical_factor)
                 ELSE IF factor_day[1] >= factor_day[2]
                   THEN interpolate_color(DAY_SKY, HORIZON_ORANGE, vertical_factor)
                 ELSE interpolate_color(NIGHT_SKY, NIGHT_BOTTOM, vertical_factor)]
    IN  {<<x, r - 1, row_colors[r]>> : x \in 0..(canvas.width - 1), r \in 1..canvas.height}

\* lines 86-108: the SetPixel calls made, as <<x, y, colour>>; factor_day is
\* the fraction factor_day[1] / factor_day[2]
draw_sky_gradient(canvas, factor_day) ==
    LET row_colors ==
          [r \in 1..canvas.height |->
             LET y == r - 1
                 vertical_factor == <<y, Max(1, canvas.height - 1)>>
             IN  IF 0 < factor_day[1] /\ factor_day[1] < factor_day[2]
                   THEN LET top_color == interpolate_color(NIGHT_SKY, DAY_SKY, factor_day)
                            bottom_color ==
                              interpolate_color(NIGHT_BOTTOM, HORIZON_ORANGE, factor_day)
                        IN  interpolate_color(top_color, bottom_color, vertical_factor)
                 ELSE IF factor_day[1] >= factor_day[2]
                   THEN interpolate_color(DAY_SKY, HORIZON_ORANGE, vertical_factor)
                 ELSE interpolate_color(NIGHT_SKY, NIGHT_BOTTOM, vertical_factor)]
    IN  {<<x, r - 1, row_colors[r]>> : x \in 0..(canvas.width - 1), r \in 1..canvas.height}

\* the fractions n / d from below 0 to above 1
DayFactors == (-1..(MaxDen + 1)) \X (1..MaxDen)

InitSky ==
    /\ LoopIdle
    /\ lastOp = "init"
    /\ arg \in [canvas : [width : 1..MaxCanvas, height : 1..MaxHeight],
                factor_day : DayFactors]
    /\ result = <<>>
    /\ prevResult = <<>>

\* one call of draw_sky_gradient
CallGradient ==
    /\ lastOp = "init"
    /\ result' = draw_sky_gradient(arg.canvas, arg.factor_day)
    /\ lastOp' = "gradient"
    /\ UNCHANGED <<arg, prevResult>>
    /\ UNCHANGED LoopVars

NextSky == CallGradient

SpecSky == InitSky /\ [][NextSky]_vars

\* the colour painted at pixel (0, y)
RowColor(y) == (CHOOSE c \in result : c[1] = 0 /\ c[2] = y)[3]

\* the top and bottom colours of the regime of factor f
RegimeTop(f) ==
    IF f[1] >= f[2] THEN DAY_SKY
    ELSE IF f[1] <= 0 THEN NIGHT_SKY
    ELSE interpolate_color(NIGHT_SKY, DAY_SKY, f)
RegimeBottom(f) ==
    IF f[1] >= f[2] THEN HORIZON_ORANGE
    ELSE IF f[1] <= 0 THEN NIGHT_BOTTOM
    ELSE interpolate_color(NIGHT_BOTTOM, HORIZON_ORANGE, f)

\* C14: draw_sky_gradient paints every pixel once, all pixels of a row alike;
\* row 0 has the top colour of the regime of the day factor and the last row
\* of a canvas higher than one row the bottom colour; every channel of every
\* row lies between those of top and bottom and is monotone in the row index
C14_SkyGradient ==
    lastOp = "gradient" =>
      LET w == arg.canvas.width
          h == arg.canvas.height
          top == RegimeTop(arg.factor_day)
          bottom == RegimeBottom(arg.factor_day)
      IN  /\ \A x \in 0..(w - 1), y \in 0..(h - 1) :
               <<x, y, RowColor(y)>> \in result
          /\ Cardinality(result) = w * h
          /\ RowColor(0) = top
          /\ h > 1 => RowColor(h - 1) = bottom
          /\ \A y \in 0..(h - 1), i \in 1..3 :
               Between(RowColor(y)[i], top[i], bottom[i])
          /\ \A i \in 1..3 :
               \/ \A y \in 0..(h - 2) : RowColor(y)[i] <= RowColor(y + 1)[i]
               \/ \A y \in 0..(h - 2) : RowColor(y)[i] >= RowColor(y + 1)[i]

\* a gradient of the transition regime on the highest canvas
C14_Witness ==
    /\ lastOp = "gradient"
    /\ arg.canvas.height = MaxHeight
    /\ arg.factor_day = <<1, 2>>
    /\ RowColor(0) = <<80, 115, 147>>
    /\ RowColor(MaxHeight - 1) = <<162, 147, 129>>
    /\ RowColor(1) # RowColor(0)

\* C15: when the frame set of hooh or of lugia is empty and the other three
\* chain members have frames, trainer and ray have still played to their end
\* by second 40 of a minute that began with a rollover.
C15_ChainSkipsEmpty ==
    \A e \in {"hooh", "lugia"} :
      (/\ frames[e] = 0
       /\ \A n \in ChainSet \ {e} : frames[n] > 0
       /\ rollovers >= 1
       /\ now % 60 >= 40)
      => {"trainer", "ray"} \subseteq played

\* C16: the cloud offset stays within CLOUD_DRIFT_RANGE to either side (20
\* quarters); the direction is -1 once the offset has reached +range and +1
\* once it has reached -range; an iteration with the cloud image absent or
\* with sun progress not above 0 changes neither offset nor direction, and
\* any other iteration moves the offset one quarter in the direction it had
C16_CloudDrift ==
    /\ [](/\ -(CLOUD_DRIFT_RANGE * CloudScale) <= cloud_offset
          /\ cloud_offset <= CLOUD_DRIFT_RANGE * CloudScale
          /\ cloud_drift_direction \in {-1, 1}
          /\ cloud_offset = CLOUD_DRIFT_RANGE * CloudScale => cloud_drift_direction = -1
          /\ cloud_offset = -(CLOUD_DRIFT_RANGE * CloudScale) => cloud_drift_direction = 1)
    /\ [][IF ~CLOUDY \/ ~clouds_img \/ ~(sun_progress' > 0)
            THEN UNCHANGED <<cloud_offset, cloud_drift_direction>>
            ELSE cloud_offset' = cloud_offset + cloud_drift_direction]_vars

\* the clouds have drifted to +range, back to -range, turned round again, and
\* then stood still through an iteration after sunset
C16_Witness ==
    /\ clouds_img
    /\ ticks
    /\ sun_progress = 0
    /\ cloud_offset < 0
    /\ cloud_drift_direction = 1

\* ---------------------------------------------------------------------
\* The drawing part of HaunterAnimation.update_and_draw, followed through
\* one run of the animation
\* ---------------------------------------------------------------------

\* line 265: fps of haunter_anim
haunter_fps == 8

\* elapsed times are counted in steps of 1 / SubSec seconds; two successive
\* calls are up to MaxJump steps apart; haunter has up to MaxFrames frames
SubSec == 4
MaxJump == 2
MaxFrames == 3

\* the drawing part whose slide-out time does not leave out the hold
HaunterAnimation_draw_HoldCounted(canvas_width, width, count, k) ==
    LET sd == slide_duration * SubSec
        hd == hold_duration * SubSec
        x_pos ==
          IF k < sd
            THEN TruncDiv(canvas_width * sd + ((canvas_width - width) - canvas_width) * k, sd)
          ELSE IF k < sd + hd
            THEN canvas_width - width
          ELSE LET slide_out_elapsed == k - sd
               IN  TruncDiv((canvas_width - width) * sd
                            + (canvas_width - (canvas_width - width)) * slide_out_elapsed,
                            sd)
    IN  [e |-> k, x_pos |-> x_pos,
         frame_idx |-> TruncDiv(k * haunter_fps, SubSec) % count]

\* lines 232-249: x_pos and frame_idx at elapsed time k / SubSec seconds
HaunterAnimation_draw(canvas_width, width, count, k) ==
    LET sd == slide_duration * SubSec
        hd == hold_duration * SubSec
        x_pos ==
          IF k < sd
            THEN TruncDiv(canvas_width * sd + ((canvas_width - width) - canvas_width) * k, sd)
          ELSE IF k < sd + hd
            THEN canvas_width - width
          ELSE LET slide_out_elapsed == k - sd - hd
               IN  TruncDiv((canvas_width - width) * sd
                            + (canvas_width - (canvas_width - width)) * slide_out_elapsed,
                            sd)
    IN  [e |-> k, x_pos |-> x_pos,
         frame_idx |-> TruncDiv(k * haunter_fps, SubSec) % count]

\* no call yet
NoDraw == [e |-> None, x_pos |-> 0, frame_idx |-> 0]

\* canvases 8 and 64 (line 38) pixels wide, sprites narrower and wider than
\* the small canvas
InitHaunter ==
    /\ LoopIdle
    /\ lastOp = "init"
    /\ arg \in [canvas_width : {8, 64}, width : {1, 5, 12}, count : 1..MaxFrames]
    /\ result = NoDraw
    /\ prevResult = NoDraw

\* one call of update_and_draw that draws: the first at elapsed time 0, the
\* following ones later, none after total_duration (line 228)
CallHaunterDraw ==
    /\ \E k \in (IF lastOp = "init" THEN {0}
                 ELSE (result.e + 1)..(result.e + MaxJump)) :
         /\ ~(k > (slide_duration * 2 + hold_duration) * SubSec)
         /\ result' = HaunterAnimation_draw(arg.canvas_width, arg.width, arg.count, k)
    /\ prevResult' = result
    /\ lastOp' = "haunter"
    /\ UNCHANGED arg
    /\ UNCHANGED LoopVars

NextHaunter == CallHaunterDraw

SpecHaunter == InitHaunter /\ [][NextHaunter]_vars

\* C17: whenever Haunter is drawn its x position is between canvas width
\* minus sprite width and canvas width; it is the canvas width at 0 s and at
\* 7 s, falls (weakly) from call to call before 2 s, is canvas width minus
\* sprite width from 2 s to before 5 s, rises (weakly) from call to call from
\* 5 s on; the frame index is a valid index
C17_HaunterPhases ==
    lastOp = "haunter" =>
      LET cw == arg.canvas_width
          w == arg.width
          e == result.e
          x == result.x_pos
      IN  /\ cw - w <= x /\ x <= cw
          /\ e = 0 => x = cw
          /\ e = 7 * SubSec => x = cw
          /\ (2 * SubSec <= e /\ e < 5 * SubSec) => x = cw - w
          /\ (prevResult.e # None /\ e < 2 * SubSec) => x <= prevResult.x_pos
          /\ (prevResult.e # None /\ prevResult.e >= 5 * SubSec) => x >= prevResult.x_pos
          /\ result.frame_idx \in 0..(arg.count - 1)

\* half-way through the slide out, the call before having been in the slide
\* out too
C17_Witness ==
    /\ lastOp = "haunter"
    /\ arg.canvas_width = 64 /\ arg.width = 12 /\ arg.count = 3
    /\ result.e = 6 * SubSec
    /\ prevResult.e >= 5 * SubSec
    /\ result.x_pos = 58
    /\ prevResult.x_pos < 58
    /\ result.frame_idx = 0

\* C18: at the end of every iteration, each of the five instances that has
\* its active flag set has a start time.
C18_ActiveImpliesStarted ==
    \A n \in Names : anim[n].active => anim[n].start_time # None

\* C19: in every iteration at most one of the update_and_draw calls on hooh,
\* lugia, trainer and ray returns true, whatever their active flags are
C19_OneChainSpritePerTick ==
    Cardinality({n \in ChainSet : drew[n]}) <= 1

\* an iteration that ends with two chain members active, of which one drew
C19_Witness ==
    /\ ticks
    /\ Cardinality({n \in ChainSet : anim[n].active}) >= 2
    /\ Cardinality({n \in ChainSet : drew[n]}) = 1

\* C20: the sun progress and the moon progress computed for one instant are
\* never both above 0, so the night animation (driven when the moon progress
\* is above 0) is never driven when the daytime scenery (drawn when the sun
\* progress is above 0) is shown
C20_SunMoonExclusive ==
    lastOp = "moon" =>
      /\ ~(sun_progress > 0 /\ moon_progress > 0)
      /\ NightDriven(sun_progress, moon_progress) => sun_progress = 0
      /\ now \in {sunrise_today, sunset_today + TRANSITION, sunrise_today - TRANSITION}
           => sun_progress = 0

\* one second after the end of the sunset transition: the moon has begun to
\* rise, the sun is down
C20_Witness ==
    /\ lastOp = "moon"
    /\ now = sunset_today + TRANSITION + 1
    /\ moon_progress = 1
    /\ sun_progress = 0

====
